---- MODULE Spec2Model ----
(***************************************************************************)
(* TopCache (state/src/cache/top_cache.rs): five WriteBack<T> sub-caches   *)
(* in front of one merkle trie, driven in lockstep.                        *)
(*                                                                         *)
(* TopCache's own methods are translated from top_cache.rs.  WriteBack<T>  *)
(* (state/src/cache/write_back.rs) is not among the source files at hand;  *)
(* its operations are modelled from section 4.1 of the specification and   *)
(* carry the prefix WB_.                                                   *)
(*                                                                         *)
(* Option<T> is modelled as a set with at most one element: None is {},    *)
(* Some(v) is {v}.                                                         *)
(*                                                                         *)
(* Specifications: Spec (every operation, short runs), SpecCommit (commits *)
(* that fail), SpecNested (nested checkpoints), SpecItems (cached_<kind>), *)
(* SpecClone (clone) and SpecSeed (a new cache from a committed one).      *)
(***************************************************************************)
EXTENDS Integers, Sequences, FiniteSets, TLC

\* ---------------------------------------------------------------- bounds
MaxAddr == 2        \* addresses 1..MaxAddr in every sub-cache
MaxVal == 1         \* item values 0..MaxVal
MaxDepth == 2       \* checkpoints open at once
MaxStored == 1      \* keys the trie holds a value for at the start
MaxOps == 3         \* operations in one run of Spec
MaxCommitOps == 5   \* operations in one run of SpecCommit
MaxNestedOps == 6   \* operations in one run of SpecNested
MaxItemsOps == 4    \* operations in one run of SpecItems
MaxCloneOps == 5    \* operations in one run of SpecClone
MaxSeedOps == 4     \* operations in one run of SpecSeed

\* ------------------------------------------------------------ data model
Kinds == <<"account", "regular_account", "metadata", "shard", "action_data">>
KindSet == {Kinds[i] : i \in DOMAIN Kinds}
\* kinds for which TopCache has a remove_<kind> method (no remove_metadata)
Removable == {"account", "regular_account", "shard", "action_data"}
Addr == 1..MaxAddr
Value == 0..MaxVal
Default == 0
None == {}
Some(v) == {v}
OptValue == {None} \cup {Some(v) : v \in Value}
Key == KindSet \X Addr
NoKey == <<"none", 0>>

\* Entry: one cache slot.  res = FALSE stands for "no slot for this address".
NotResident == [res |-> FALSE, item |-> None, is_dirty |-> FALSE]
new_clean(item) == [res |-> TRUE, item |-> item, is_dirty |-> FALSE]
new_dirty(item) == [res |-> TRUE, item |-> item, is_dirty |-> TRUE]

\* A frame maps an address to the snapshot to restore; rec = FALSE: nothing
\* recorded for the address in this frame.
NoSnap == [rec |-> FALSE, e |-> NotResident]
Snap(e) == [rec |-> TRUE, e |-> e]
EmptyFrame == [a \in Addr |-> NoSnap]

\* Results of the fallible operations (TrieResult<..>)
Ok(v) == [ok |-> TRUE, val |-> v]
Err == [ok |-> FALSE, val |-> None]

\* The trie capability: content kv, and err = TRUE when its reads fail.
Db(kv, err) == [kv |-> kv, err |-> err]
TrieGet(db, key) == IF db.err THEN Err ELSE Ok(db.kv[key])

\* ------------------------------------------- WriteBack<T> (spec 4.1)
\* construct(seed): every seeded entry clean, checkpoint stack empty.
\* seed maps an address to None (not in the iterator) or Some(v).
\* persisted is what the cache knows the trie to hold for a resident
\* address: the value it was seeded with, loaded, or wrote last (the
\* baseline that revert_to_checkpoint, which is given no trie, compares a
\* restored value with); None for an address that is not resident.
WB_new_with_iter(seed) ==
  [cache |-> [a \in Addr |-> IF seed[a] = None THEN NotResident
                                 ELSE new_clean(seed[a])],
   checkpoints |-> << >>,
   persisted |-> [a \in Addr |-> seed[a]]]

WB_checkpoint(wb) == [wb EXCEPT !.checkpoints = Append(@, EmptyFrame)]

WB_depth(wb) == Len(wb.checkpoints)

\* the oldest snapshot for each address wins
MergeFrames(prev, popped) ==
  [a \in Addr |-> IF prev[a].rec THEN prev[a] ELSE popped[a]]

\* pop the top frame and merge it into the new top frame, if there is one.
\* With no frame open the call is a fatal assertion: it changes nothing (the
\* abort itself is the action EmptyStackPanic).
WB_discard_checkpoint(wb) ==
  LET n == Len(wb.checkpoints)
      popped == wb.checkpoints[n]
      rest == SubSeq(wb.checkpoints, 1, n - 1)
  IN  IF n = 0 THEN wb
      ELSE IF n = 1 THEN [wb EXCEPT !.checkpoints = rest]
      ELSE [wb EXCEPT !.checkpoints =
              [rest EXCEPT ![n - 1] = MergeFrames(rest[n - 1], popped)]]

\* the entry that a revert puts back for snapshot e: the snapshot, marked
\* dirty when its value differs from what the trie holds ("mark dirty only
\* if the restored value differs from what is currently persisted in the
\* trie"); a snapshot that was dirty stays dirty (spec 8)
WB_restore(e, persisted) ==
  IF e.res THEN [e EXCEPT !.is_dirty = e.is_dirty \/ e.item # persisted]
  ELSE e

\* pop the top frame and overwrite every recorded entry with its snapshot
WB_revert_to_checkpoint(wb) ==
  LET n == Len(wb.checkpoints)
      popped == wb.checkpoints[n]
  IN  IF n = 0 THEN wb
      ELSE [cache |-> [a \in Addr |->
                         IF popped[a].rec
                         THEN WB_restore(popped[a].e, wb.persisted[a])
                         ELSE wb.cache[a]],
            checkpoints |-> SubSeq(wb.checkpoints, 1, n - 1),
            persisted |-> [a \in Addr |->
                             IF popped[a].rec /\ ~popped[a].e.res THEN None
                             ELSE wb.persisted[a]]]

\* record a snapshot in the active frame, once per frame and address.  The
\* snapshot is the entry as it is before the mutation, dirty flag included
\* ("the entry's dirty flag equals its pre-checkpoint dirty flag", spec 8);
\* for an address that is not resident (remove on a miss) it records that
\* there was no entry, and the revert takes the entry away again.
WB_note_cache(wb, a) ==
  LET n == Len(wb.checkpoints)
  IN  IF n > 0 /\ ~wb.checkpoints[n][a].rec
      THEN [wb EXCEPT !.checkpoints[n][a] = Snap(wb.cache[a])]
      ELSE wb

\* get: cache first, else read the store and keep a clean entry.
\* reads counts the store reads made.
WB_get(kind, wb, a, db) ==
  IF wb.cache[a].res
  THEN [wb |-> wb, res |-> Ok(wb.cache[a].item), reads |-> 0]
  ELSE LET r == TrieGet(db, <<kind, a>>)
       IN  IF ~r.ok THEN [wb |-> wb, res |-> Err, reads |-> 1]
           ELSE [wb |-> [wb EXCEPT !.cache[a] = new_clean(r.val),
                                   !.persisted[a] = r.val],
                 res |-> r, reads |-> 1]

\* get_mut: load on miss, snapshot, mark dirty, default when absent.  w is
\* what the caller writes through the returned handle: None for nothing,
\* Some(v) to set the item to v.
WB_get_mut(kind, wb, a, db, w) ==
  LET g == WB_get(kind, wb, a, db)
  IN  IF ~g.res.ok THEN [wb |-> wb, res |-> Err]
      ELSE LET noted == WB_note_cache(g.wb, a)
               base == IF noted.cache[a].item = None THEN Some(Default)
                       ELSE noted.cache[a].item
               item == IF w = None THEN base ELSE w
           IN  [wb |-> [noted EXCEPT !.cache[a] = new_dirty(item)],
                res |-> Ok(item)]

\* remove: snapshot as get_mut does, then a dirty tombstone, resident or
\* not; remove takes no store, so it never loads
WB_remove(wb, a) ==
  [WB_note_cache(wb, a) EXCEPT !.cache[a] = new_dirty(None)]

\* commit: every dirty resident entry in address order, Some(v) as an
\* insert and None as a remove, marked clean once written; stop at the
\* first failing trie write.  bad is the key whose trie write fails (or
\* NoKey).  The trie keys of different kinds are distinct.
RECURSIVE WB_commit_from(_, _, _, _, _)
WB_commit_from(kind, wb, kv, bad, a) ==
  IF a > MaxAddr THEN [wb |-> wb, kv |-> kv, ok |-> TRUE]
  ELSE LET e == wb.cache[a]
       IN  IF e.res /\ e.is_dirty
           THEN IF <<kind, a>> = bad
                THEN [wb |-> wb, kv |-> kv, ok |-> FALSE]
                ELSE WB_commit_from(kind,
                                    [wb EXCEPT !.cache[a].is_dirty = FALSE,
                                               !.persisted[a] = e.item],
                                    [kv EXCEPT ![<<kind, a>>] = e.item],
                                    bad, a + 1)
           ELSE WB_commit_from(kind, wb, kv, bad, a + 1)

WB_commit(kind, wb, kv, bad) == WB_commit_from(kind, wb, kv, bad, 1)

\* clone(): a deep copy of all entries and of the full checkpoint stack
WB_clone(wb) ==
  [cache |-> [a \in Addr |-> wb.cache[a]],
   checkpoints |-> [i \in DOMAIN wb.checkpoints |->
                      [a \in Addr |-> wb.checkpoints[i][a]]],
   persisted |-> [a \in Addr |-> wb.persisted[a]]]

\* ------------------------------------------------ TopCache (top_cache.rs)
\* mutant: the accounts and the regular accounts are swapped
new_swapping_accounts(accounts, regular_accounts, metadata, shards, action_data) ==
  [account |-> WB_new_with_iter(regular_accounts),
   regular_account |-> WB_new_with_iter(accounts),
   metadata |-> WB_new_with_iter(metadata),
   shard |-> WB_new_with_iter(shards),
   action_data |-> WB_new_with_iter(action_data)]

new(accounts, regular_accounts, metadata, shards, action_data) ==
  [account |-> WB_new_with_iter(accounts),
   regular_account |-> WB_new_with_iter(regular_accounts),
   metadata |-> WB_new_with_iter(metadata),
   shard |-> WB_new_with_iter(shards),
   action_data |-> WB_new_with_iter(action_data)]

\* mutant: the action_data sub-cache is left out
checkpoint_without_action_data(tc) ==
  [account |-> WB_checkpoint(tc.account),
   regular_account |-> WB_checkpoint(tc.regular_account),
   metadata |-> WB_checkpoint(tc.metadata),
   shard |-> WB_checkpoint(tc.shard),
   action_data |-> tc.action_data]

checkpoint(tc) ==
  [account |-> WB_checkpoint(tc.account),
   regular_account |-> WB_checkpoint(tc.regular_account),
   metadata |-> WB_checkpoint(tc.metadata),
   shard |-> WB_checkpoint(tc.shard),
   action_data |-> WB_checkpoint(tc.action_data)]

\* mutant: the account sub-cache is reverted instead of discarded
discard_checkpoint_reverting_account(tc) ==
  [account |-> WB_revert_to_checkpoint(tc.account),
   regular_account |-> WB_discard_checkpoint(tc.regular_account),
   metadata |-> WB_discard_checkpoint(tc.metadata),
   shard |-> WB_discard_checkpoint(tc.shard),
   action_data |-> WB_discard_checkpoint(tc.action_data)]

\* mutant: the shard sub-cache is discarded twice
discard_checkpoint_shard_twice(tc) ==
  [account |-> WB_discard_checkpoint(tc.account),
   regular_account |-> WB_discard_checkpoint(tc.regular_account),
   metadata |-> WB_discard_checkpoint(tc.metadata),
   shard |-> WB_discard_checkpoint(WB_discard_checkpoint(tc.shard)),
   action_data |-> WB_discard_checkpoint(tc.action_data)]

\* mutant: the shard sub-cache is left out
discard_checkpoint_without_shard(tc) ==
  [account |-> WB_discard_checkpoint(tc.account),
   regular_account |-> WB_discard_checkpoint(tc.regular_account),
   metadata |-> WB_discard_checkpoint(tc.metadata),
   shard |-> tc.shard,
   action_data |-> WB_discard_checkpoint(tc.action_data)]

discard_checkpoint(tc) ==
  [account |-> WB_discard_checkpoint(tc.account),
   regular_account |-> WB_discard_checkpoint(tc.regular_account),
   metadata |-> WB_discard_checkpoint(tc.metadata),
   shard |-> WB_discard_checkpoint(tc.shard),
   action_data |-> WB_discard_checkpoint(tc.action_data)]

\* mutant: the shard sub-cache is left out
revert_to_checkpoint_without_shard(tc) ==
  [account |-> WB_revert_to_checkpoint(tc.account),
   regular_account |-> WB_revert_to_checkpoint(tc.regular_account),
   metadata |-> WB_revert_to_checkpoint(tc.metadata),
   shard |-> tc.shard,
   action_data |-> WB_revert_to_checkpoint(tc.action_data)]

\* mutant: the account sub-cache is reverted twice
revert_to_checkpoint_account_twice(tc) ==
  [account |-> WB_revert_to_checkpoint(WB_revert_to_checkpoint(tc.account)),
   regular_account |-> WB_revert_to_checkpoint(tc.regular_account),
   metadata |-> WB_revert_to_checkpoint(tc.metadata),
   shard |-> WB_revert_to_checkpoint(tc.shard),
   action_data |-> WB_revert_to_checkpoint(tc.action_data)]

\* mutant: the account sub-cache is discarded instead of reverted
revert_to_checkpoint_discards_account(tc) ==
  [account |-> WB_discard_checkpoint(tc.account),
   regular_account |-> WB_revert_to_checkpoint(tc.regular_account),
   metadata |-> WB_revert_to_checkpoint(tc.metadata),
   shard |-> WB_revert_to_checkpoint(tc.shard),
   action_data |-> WB_revert_to_checkpoint(tc.action_data)]

revert_to_checkpoint(tc) ==
  [account |-> WB_revert_to_checkpoint(tc.account),
   regular_account |-> WB_revert_to_checkpoint(tc.regular_account),
   metadata |-> WB_revert_to_checkpoint(tc.metadata),
   shard |-> WB_revert_to_checkpoint(tc.shard),
   action_data |-> WB_revert_to_checkpoint(tc.action_data)]

\* one `self.<kind>.commit(trie)?;` line: skipped once an earlier one failed
commit_step(st, kind) ==
  IF ~st.ok THEN st
  ELSE LET r == WB_commit(kind, st.tc[kind], st.kv, st.bad)
       IN  [tc |-> [st.tc EXCEPT ![kind] = r.wb], kv |-> r.kv,
            bad |-> st.bad, ok |-> r.ok]

\* mutant: a commit closes the innermost open checkpoint
commit_closing_checkpoint(tc, kv, bad) ==
  LET s0 == [tc |-> tc, kv |-> kv, bad |-> bad, ok |-> TRUE]
      s1 == commit_step(s0, "account")
      s2 == commit_step(s1, "regular_account")
      s3 == commit_step(s2, "metadata")
      s4 == commit_step(s3, "shard")
      s5 == commit_step(s4, "action_data")
  IN  [s5 EXCEPT !.tc = discard_checkpoint(s5.tc)]

\* mutant: the shard sub-cache is never committed
commit_without_shard(tc, kv, bad) ==
  LET s0 == [tc |-> tc, kv |-> kv, bad |-> bad, ok |-> TRUE]
      s1 == commit_step(s0, "account")
      s2 == commit_step(s1, "regular_account")
      s3 == commit_step(s2, "metadata")
      s5 == commit_step(s3, "action_data")
  IN  s5

\* mutant: the metadata sub-cache is never committed
commit_without_metadata(tc, kv, bad) ==
  LET s0 == [tc |-> tc, kv |-> kv, bad |-> bad, ok |-> TRUE]
      s1 == commit_step(s0, "account")
      s2 == commit_step(s1, "regular_account")
      s4 == commit_step(s2, "shard")
      s5 == commit_step(s4, "action_data")
  IN  s5

\* mutant: the result of the account sub-cache's commit is dropped
commit_ignoring_account_error(tc, kv, bad) ==
  LET s0 == [tc |-> tc, kv |-> kv, bad |-> bad, ok |-> TRUE]
      s1 == [commit_step(s0, "account") EXCEPT !.ok = TRUE]
      s2 == commit_step(s1, "regular_account")
      s3 == commit_step(s2, "metadata")
      s4 == commit_step(s3, "shard")
      s5 == commit_step(s4, "action_data")
  IN  s5

\* mutant: action_data is committed first
commit_action_data_first(tc, kv, bad) ==
  LET s0 == [tc |-> tc, kv |-> kv, bad |-> bad, ok |-> TRUE]
      s1 == commit_step(s0, "action_data")
      s2 == commit_step(s1, "account")
      s3 == commit_step(s2, "regular_account")
      s4 == commit_step(s3, "metadata")
      s5 == commit_step(s4, "shard")
  IN  s5

commit(tc, kv, bad) ==
  LET s0 == [tc |-> tc, kv |-> kv, bad |-> bad, ok |-> TRUE]
      s1 == commit_step(s0, "account")
      s2 == commit_step(s1, "regular_account")
      s3 == commit_step(s2, "metadata")
      s4 == commit_step(s3, "shard")
      s5 == commit_step(s4, "action_data")
  IN  s5

\* typed accessors: each returns the new TopCache with the sub-cache's result
account(tc, a, db) ==
  LET r == WB_get("account", tc.account, a, db)
  IN  [tc |-> [tc EXCEPT !.account = r.wb], res |-> r.res, reads |-> r.reads]
account_mut(tc, a, db, w) ==
  LET r == WB_get_mut("account", tc.account, a, db, w)
  IN  [tc |-> [tc EXCEPT !.account = r.wb], res |-> r.res]
\* mutant: remove_account() forgets what the open checkpoint has recorded
\* for the address
remove_account_renoting(tc, a) ==
  LET n == Len(tc.account.checkpoints)
      wb == IF n = 0 THEN tc.account
            ELSE [tc.account EXCEPT !.checkpoints[n][a] = NoSnap]
  IN  [tc EXCEPT !.account = WB_remove(wb, a)]

remove_account(tc, a) == [tc EXCEPT !.account = WB_remove(tc.account, a)]

regular_account(tc, a, db) ==
  LET r == WB_get("regular_account", tc.regular_account, a, db)
  IN  [tc |-> [tc EXCEPT !.regular_account = r.wb], res |-> r.res,
       reads |-> r.reads]
regular_account_mut(tc, a, db, w) ==
  LET r == WB_get_mut("regular_account", tc.regular_account, a, db, w)
  IN  [tc |-> [tc EXCEPT !.regular_account = r.wb], res |-> r.res]
remove_regular_account(tc, a) ==
  [tc EXCEPT !.regular_account = WB_remove(tc.regular_account, a)]

metadata(tc, a, db) ==
  LET r == WB_get("metadata", tc.metadata, a, db)
  IN  [tc |-> [tc EXCEPT !.metadata = r.wb], res |-> r.res, reads |-> r.reads]
metadata_mut(tc, a, db, w) ==
  LET r == WB_get_mut("metadata", tc.metadata, a, db, w)
  IN  [tc |-> [tc EXCEPT !.metadata = r.wb], res |-> r.res]

\* mutant: shard() goes through get_mut and hands back the item
shard_through_get_mut(tc, a, db) ==
  LET r == WB_get_mut("shard", tc.shard, a, db, None)
  IN  [tc |-> [tc EXCEPT !.shard = r.wb], res |-> r.res,
       reads |-> IF tc.shard.cache[a].res THEN 0 ELSE 1]

shard(tc, a, db) ==
  LET r == WB_get("shard", tc.shard, a, db)
  IN  [tc |-> [tc EXCEPT !.shard = r.wb], res |-> r.res, reads |-> r.reads]
shard_mut(tc, a, db, w) ==
  LET r == WB_get_mut("shard", tc.shard, a, db, w)
  IN  [tc |-> [tc EXCEPT !.shard = r.wb], res |-> r.res]
\* mutant: remove_shard() leaves an address alone that is not resident
remove_shard_if_resident(tc, a) ==
  IF tc.shard.cache[a].res THEN [tc EXCEPT !.shard = WB_remove(tc.shard, a)]
  ELSE tc

remove_shard(tc, a) == [tc EXCEPT !.shard = WB_remove(tc.shard, a)]

action_data(tc, a, db) ==
  LET r == WB_get("action_data", tc.action_data, a, db)
  IN  [tc |-> [tc EXCEPT !.action_data = r.wb], res |-> r.res,
       reads |-> r.reads]
action_data_mut(tc, a, db, w) ==
  LET r == WB_get_mut("action_data", tc.action_data, a, db, w)
  IN  [tc |-> [tc EXCEPT !.action_data = r.wb], res |-> r.res]
\* mutant: remove_action_data() removes from the account sub-cache
remove_action_data_from_account(tc, a) ==
  [tc EXCEPT !.account = WB_remove(tc.account, a)]

remove_action_data(tc, a) ==
  [tc EXCEPT !.action_data = WB_remove(tc.action_data, a)]

\* items() (spec 4.1): every resident address with its current item, in
\* unspecified internal order.  In top_cache.rs an element of items() is a
\* triple (_, addr, item) and cached_<kind>() sorts on the first component:
\* rank gives that component for every address; two addresses may have the
\* same one.  WB_items is the set of vectors items() can return.
Ranks == [Addr -> 1..MaxAddr]
Perms(S) ==
  {s \in [1..Cardinality(S) -> S] : \A i, j \in DOMAIN s : s[i] = s[j] => i = j}
WB_items(wb, rank) ==
  Perms({<<rank[a], a, wb.cache[a].item>> : a \in {x \in Addr : wb.cache[x].res}})

\* mutant: the items are sorted on the address
sort_by_address(items) ==
  {s \in Perms({items[i] : i \in DOMAIN items}) :
     \A i, j \in DOMAIN s : i < j => s[i][2] <= s[j][2]}

\* items.sort_unstable_by(|lhs, rhs| lhs.0.cmp(&rhs.0)): the elements of
\* items in ascending order of the first component; the sort is unstable, so
\* elements with equal first components come out in any order.  The value is
\* the set of vectors the sort can leave.
sort_unstable_by_0(items) ==
  {s \in Perms({items[i] : i \in DOMAIN items}) :
     \A i, j \in DOMAIN s : i < j => s[i][1] <= s[j][1]}
\* items.into_iter().map(|(_, addr, item)| (addr, item)).collect()
drop_0(s) == [i \in DOMAIN s |-> <<s[i][2], s[i][3]>>]
\* sort, then drop the first component, for every vector items() can return
sorted_pairs(its) ==
  {drop_0(s) : s \in UNION {sort_unstable_by_0(items) : items \in its}}

\* the vectors cached_<kind>() can return
cached_accounts(tc, rank) == sorted_pairs(WB_items(tc.account, rank))
cached_regular_accounts(tc, rank) ==
  sorted_pairs(WB_items(tc.regular_account, rank))
cached_metadata(tc, rank) == sorted_pairs(WB_items(tc.metadata, rank))
cached_shards(tc, rank) == sorted_pairs(WB_items(tc.shard, rank))
cached_action_data(tc, rank) == sorted_pairs(WB_items(tc.action_data, rank))

\* the accessor of a kind
get(kind, tc, a, db) ==
  CASE kind = "account" -> account(tc, a, db)
    [] kind = "regular_account" -> regular_account(tc, a, db)
    [] kind = "metadata" -> metadata(tc, a, db)
    [] kind = "shard" -> shard(tc, a, db)
    [] kind = "action_data" -> action_data(tc, a, db)
get_mut(kind, tc, a, db, w) ==
  CASE kind = "account" -> account_mut(tc, a, db, w)
    [] kind = "regular_account" -> regular_account_mut(tc, a, db, w)
    [] kind = "metadata" -> metadata_mut(tc, a, db, w)
    [] kind = "shard" -> shard_mut(tc, a, db, w)
    [] kind = "action_data" -> action_data_mut(tc, a, db, w)
remove(kind, tc, a) ==
  CASE kind = "account" -> remove_account(tc, a)
    [] kind = "regular_account" -> remove_regular_account(tc, a)
    [] kind = "shard" -> remove_shard(tc, a)
    [] kind = "action_data" -> remove_action_data(tc, a)
cached(kind, tc, rank) ==
  CASE kind = "account" -> cached_accounts(tc, rank)
    [] kind = "regular_account" -> cached_regular_accounts(tc, rank)
    [] kind = "metadata" -> cached_metadata(tc, rank)
    [] kind = "shard" -> cached_shards(tc, rank)
    [] kind = "action_data" -> cached_action_data(tc, rank)

\* mutant: the shard sub-cache of the clone starts without checkpoints
clone_without_shard_checkpoints(tc) ==
  [account |-> WB_clone(tc.account),
   regular_account |-> WB_clone(tc.regular_account),
   metadata |-> WB_clone(tc.metadata),
   shard |-> WB_new_with_iter([a \in Addr |-> tc.shard.cache[a].item]),
   action_data |-> WB_clone(tc.action_data)]

\* impl Clone for TopCache
clone(tc) ==
  [account |-> WB_clone(tc.account),
   regular_account |-> WB_clone(tc.regular_account),
   metadata |-> WB_clone(tc.metadata),
   shard |-> WB_clone(tc.shard),
   action_data |-> WB_clone(tc.action_data)]

\* ------------------------------------------------------------- the state
VARIABLES
  c,        \* the TopCache
  trie,     \* content of the trie: Key -> Option<value>
  hist,     \* history: per open checkpoint, what held when it was taken
  tomb,     \* history: keys removed, with no get_mut or revert since
  last,     \* history: the operation just performed and what it returned
  ops,      \* operations performed
  c2,       \* << >>, or <<the cache that c was cloned from>>
  miss      \* history: removes on addresses that were not resident

vars == <<c, trie, hist, tomb, last, ops, c2, miss>>

\* what get(k, store) returns on a store whose reads succeed
View(tc, kv) ==
  [k \in Key |-> get(k[1], tc, k[2], Db(kv, FALSE)).res.val]
Entries(tc) == [k \in Key |-> tc[k[1]].cache[k[2]]]
Depths(tc) == [kind \in KindSet |-> WB_depth(tc[kind])]
Frames(tc) == [kind \in KindSet |-> tc[kind].checkpoints]
Dirty(tc) == {k \in Key : Entries(tc)[k].res /\ Entries(tc)[k].is_dirty}

\* a history frame: the view and the entries at checkpoint() time, the keys
\* mutated since (touched), whether a commit ran since, whether an inner
\* checkpoint was discarded into it (merged) and the keys that inner frames
\* were the first to mutate (inner_only), whether an inner checkpoint was
\* reverted (reverted), whether the frame was open when the cache was cloned
\* (cloned)
HistFrame(tc, kv) ==
  [view |-> View(tc, kv), entries |-> Entries(tc), touched |-> {},
   committed |-> FALSE, merged |-> FALSE, inner_only |-> {},
   reverted |-> FALSE, cloned |-> FALSE]
NoHist ==
  [view |-> [k \in Key |-> None], entries |-> [k \in Key |-> NotResident],
   touched |-> {}, committed |-> FALSE, merged |-> FALSE, inner_only |-> {},
   reverted |-> FALSE, cloned |-> FALSE]

Touch(h, k) ==
  IF Len(h) = 0 THEN h
  ELSE [h EXCEPT ![Len(h)].touched = @ \cup {k}]

\* the operation just performed: its name, the key it was given (commit: the
\* key whose trie write fails), its result, the store reads it made, the
\* history frame it closed (discard, revert), the keys dirty when it began
\* (commit) and the keys that were dirty when a commit failed, with no
\* successful commit since (pending); for cached_<kind>() the triples items()
\* handed out (items), the returned vector being res.val; for
\* get_mut and remove whether the key had been mutated before under the
\* innermost open checkpoint (again)
First ==
  [op |-> "new", key |-> NoKey, res |-> Ok(None), reads |-> 0,
   closed |-> NoHist, dirty |-> {}, pending |-> {}, items |-> {},
   again |-> FALSE]
Pending ==
  IF last.op # "commit" THEN last.pending
  ELSE IF last.res.ok THEN {}
  ELSE last.pending \cup last.dirty
Last(op, key, res, reads, closed) ==
  [op |-> op, key |-> key, res |-> res, reads |-> reads, closed |-> closed,
   dirty |-> {}, pending |-> Pending, items |-> {},
   again |-> op \in {"get_mut", "remove"} /\ Len(hist) > 0
               /\ key \in hist[Len(hist)].touched]
LastCommit(bad, res, dirty, pending) ==
  [op |-> "commit", key |-> bad, res |-> res, reads |-> 0, closed |-> NoHist,
   dirty |-> dirty, pending |-> pending, items |-> {}, again |-> FALSE]
LastCached(kind, items, out) ==
  [op |-> "cached", key |-> <<kind, 0>>, res |-> Ok(out), reads |-> 0,
   closed |-> NoHist, dirty |-> {}, pending |-> Pending, items |-> items,
   again |-> FALSE]

\* initial tries: values on at most MaxStored keys, all of them in K
InitTries(K) ==
  {kv \in [Key -> OptValue] :
     /\ \A k \in Key \ K : kv[k] = None
     /\ Cardinality({k \in K : kv[k] # None}) <= MaxStored}
SeedOf(kv, seeded, kind) ==
  [a \in Addr |-> IF <<kind, a>> \in seeded THEN kv[<<kind, a>>] ELSE None]

\* The cache is built by TopCache::new from items known from a prior commit:
\* every seeded pair is a pair the trie holds.
InitOn(K) ==
  \E kv \in InitTries(K) :
    \E seeded \in SUBSET {k \in K : kv[k] # None} :
      /\ trie = kv
      /\ c = new(SeedOf(kv, seeded, "account"),
                 SeedOf(kv, seeded, "regular_account"),
                 SeedOf(kv, seeded, "metadata"),
                 SeedOf(kv, seeded, "shard"),
                 SeedOf(kv, seeded, "action_data"))
      /\ hist = << >>
      /\ tomb = {}
      /\ last = First
      /\ ops = 0
      /\ c2 = << >>
      /\ miss = {}

\* a remove on an address that was not resident: its key, the number of
\* checkpoints open (lowered when the frame it was made in is discarded into
\* the one below) and whether the trie held a value for the key.  The record
\* goes when a revert closes that checkpoint.
Missed(k) ==
  IF Entries(c)[k].res THEN {}
  ELSE {[key |-> k, depth |-> Len(hist), stored |-> trie[k] # None]}
MissKeys(depth) == {m.key : m \in {x \in miss : x.depth = depth}}

\* a limit on the operations of a run: Limit(n), or Unlimited
Limit(n) == {n}
Unlimited == {}
Running(max) == (\A n \in max : ops < n) /\ last.op # "panic"
Tick(max) == ops' = IF max = Unlimited THEN ops ELSE ops + 1

DoCheckpoint(max) ==
  /\ Running(max)
  /\ Len(hist) < MaxDepth
  /\ c' = checkpoint(c)
  /\ hist' = Append(hist, HistFrame(c, trie))
  /\ last' = Last("checkpoint", NoKey, Ok(None), 0, NoHist)
  /\ Tick(max)
  /\ UNCHANGED <<trie, tomb, c2, miss>>

DoDiscardCheckpoint(max) ==
  /\ Running(max)
  /\ Len(hist) > 0
  /\ c' = discard_checkpoint(c)
  /\ LET n == Len(hist)
         rest == SubSeq(hist, 1, n - 1)
     IN  /\ hist' = IF n = 1 THEN rest
                    ELSE [rest EXCEPT
                            ![n - 1].touched = @ \cup hist[n].touched,
                            ![n - 1].merged = TRUE,
                            ![n - 1].inner_only =
                               @ \cup (hist[n].touched \ hist[n - 1].touched)]
         /\ last' = Last("discard_checkpoint", NoKey, Ok(None), 0, hist[n])
         /\ miss' = {IF m.depth = n THEN [m EXCEPT !.depth = n - 1] ELSE m :
                       m \in miss}
  /\ Tick(max)
  /\ UNCHANGED <<trie, tomb, c2>>

DoRevertToCheckpoint(max) ==
  /\ Running(max)
  /\ Len(hist) > 0
  /\ c' = revert_to_checkpoint(c)
  /\ LET n == Len(hist)
         rest == SubSeq(hist, 1, n - 1)
     IN  hist' = IF n = 1 THEN rest
                 ELSE [rest EXCEPT ![n - 1].reverted = TRUE]
  /\ tomb' = {}
  /\ last' = Last("revert_to_checkpoint", NoKey, Ok(None), 0, hist[Len(hist)])
  /\ miss' = {m \in miss : m.depth < Len(hist)}
  /\ Tick(max)
  /\ UNCHANGED <<trie, c2>>

\* discard or revert with no checkpoint open: a fatal assertion (spec 7)
DoEmptyStackPanic(max) ==
  /\ Running(max)
  /\ Len(hist) = 0
  /\ last' = Last("panic", NoKey, Err, 0, NoHist)
  /\ Tick(max)
  /\ UNCHANGED <<c, trie, hist, tomb, c2, miss>>

\* commit(trie); the trie write to key bad fails (bad = NoKey: none fails)
DoCommit(max, K) ==
  /\ Running(max)
  /\ \E bad \in K \cup {NoKey} :
       LET r == commit(c, trie, bad)
       IN  /\ c' = r.tc
           /\ trie' = r.kv
           /\ last' = LastCommit(bad, IF r.ok THEN Ok(None) ELSE Err,
                                 Dirty(c), Pending)
  /\ hist' = [i \in DOMAIN hist |-> [hist[i] EXCEPT !.committed = TRUE]]
  /\ Tick(max)
  /\ UNCHANGED <<tomb, c2, miss>>

\* <kind>(a, db); err: the trie's reads fail
DoGet(max, K, E) ==
  /\ Running(max)
  /\ \E k \in K, err \in E :
       LET r == get(k[1], c, k[2], Db(trie, err))
       IN  /\ c' = r.tc
           /\ last' = Last("get", k, r.res, r.reads, NoHist)
  /\ Tick(max)
  /\ UNCHANGED <<trie, hist, tomb, c2, miss>>

\* <kind>_mut(a, db), and the caller's write w through the handle
DoGetMut(max, K, E) ==
  /\ Running(max)
  /\ \E k \in K, err \in E, w \in OptValue :
       LET r == get_mut(k[1], c, k[2], Db(trie, err), w)
       IN  /\ c' = r.tc
           /\ last' = Last("get_mut", k, r.res, 0, NoHist)
           /\ hist' = IF r.res.ok THEN Touch(hist, k) ELSE hist
           /\ tomb' = IF r.res.ok THEN tomb \ {k} ELSE tomb
  /\ Tick(max)
  /\ UNCHANGED <<trie, c2, miss>>

\* remove_<kind>(a)
DoRemove(max, K) ==
  /\ Running(max)
  /\ \E k \in K :
       /\ k[1] \in Removable
       /\ c' = remove(k[1], c, k[2])
       /\ last' = Last("remove", k, Ok(None), 0, NoHist)
       /\ hist' = Touch(hist, k)
       /\ tomb' = tomb \cup {k}
       /\ miss' = miss \cup Missed(k)
  /\ Tick(max)
  /\ UNCHANGED <<trie, c2>>

\* the triples of items(), whatever their order
Triples(wb, rank) ==
  UNION {{its[i] : i \in DOMAIN its} : its \in WB_items(wb, rank)}

\* cached_<kind>(); rank: the first components of the triples of items()
DoCached(max) ==
  /\ Running(max)
  /\ \E kind \in KindSet, rank \in Ranks :
       \E out \in cached(kind, c, rank) :
         last' = LastCached(kind, Triples(c[kind], rank), out)
  /\ Tick(max)
  /\ UNCHANGED <<c, trie, hist, tomb, c2, miss>>

\* the seed that the (address, value) pairs of a cached_<kind>() vector make:
\* new() takes items, so a pair without a value (a tombstone) seeds nothing
SeedFrom(out) ==
  [a \in Addr |-> IF \E i \in DOMAIN out : out[i][1] = a
                  THEN out[CHOOSE i \in DOMAIN out : out[i][1] = a][2]
                  ELSE None]
Seeded(tc) == {k \in Key : Entries(tc)[k].res /\ Entries(tc)[k].item # None}

\* TopCache::new from the items of the cache just committed, which the new
\* cache replaces
DoNewFromItems(max) ==
  /\ Running(max)
  /\ last.op = "commit" /\ last.res.ok
  /\ \E rank \in Ranks :
       \E ac \in cached_accounts(c, rank),
          ra \in cached_regular_accounts(c, rank),
          me \in cached_metadata(c, rank),
          sh \in cached_shards(c, rank),
          ad \in cached_action_data(c, rank) :
         c' = new(SeedFrom(ac), SeedFrom(ra), SeedFrom(me), SeedFrom(sh),
                  SeedFrom(ad))
  /\ hist' = << >>
  /\ tomb' = {}
  /\ miss' = {}
  /\ last' = [Last("new", NoKey, Ok(None), 0, NoHist) EXCEPT
                !.items = Seeded(c)]
  /\ Tick(max)
  /\ UNCHANGED <<trie, c2>>

\* c.clone(): from here on the run goes on with the clone, which c holds;
\* the cache it was cloned from is kept in c2 and operated by DoOther.  The
\* history of the original is the history of its clone.
DoClone(max) ==
  /\ Running(max)
  /\ c2 = << >>
  /\ c' = clone(c)
  /\ c2' = <<c>>
  /\ hist' = [i \in DOMAIN hist |-> [hist[i] EXCEPT !.cloned = TRUE]]
  /\ last' = Last("clone", NoKey, Ok(None), 0, NoHist)
  /\ Tick(max)
  /\ UNCHANGED <<trie, tomb, miss>>

\* one operation on the cache tc over the trie kv
OtherOps ==
  {"checkpoint", "discard_checkpoint", "revert_to_checkpoint", "commit",
   "get_mut", "remove"}
apply(op, tc, kv, k, w) ==
  CASE op = "checkpoint" -> [tc |-> checkpoint(tc), kv |-> kv]
    [] op = "discard_checkpoint" -> [tc |-> discard_checkpoint(tc), kv |-> kv]
    [] op = "revert_to_checkpoint" ->
         [tc |-> revert_to_checkpoint(tc), kv |-> kv]
    [] op = "commit" -> LET r == commit(tc, kv, NoKey)
                        IN  [tc |-> r.tc, kv |-> r.kv]
    [] op = "get_mut" ->
         [tc |-> get_mut(k[1], tc, k[2], Db(kv, FALSE), w).tc, kv |-> kv]
    [] op = "remove" -> [tc |-> remove(k[1], tc, k[2]), kv |-> kv]

\* an operation on the cache that c was cloned from
DoOther(max, K) ==
  /\ Running(max)
  /\ c2 # << >>
  /\ \E op \in OtherOps, k \in K, w \in OptValue :
       /\ op = "checkpoint" => WB_depth(c2[1].account) < MaxDepth
       /\ op \in {"discard_checkpoint", "revert_to_checkpoint"}
            => WB_depth(c2[1].account) > 0
       /\ op = "remove" => k[1] \in Removable
       /\ LET r == apply(op, c2[1], trie, k, w)
          IN  /\ c2' = <<r.tc>>
              /\ trie' = r.kv
       /\ hist' = IF op = "commit"
                  THEN [i \in DOMAIN hist |->
                          [hist[i] EXCEPT !.committed = TRUE]]
                  ELSE hist
       /\ last' = Last("other", k, Ok(None), 0, NoHist)
  /\ Tick(max)
  /\ UNCHANGED <<c, tomb, miss>>

\* ---- Spec: every operation, on the first address of each kind, in
\* short runs; trie reads may fail
KeysWide == {k \in Key : k[2] = 1}
Init == InitOn(KeysWide)
Checkpoint == DoCheckpoint(Limit(MaxOps))
DiscardCheckpoint == DoDiscardCheckpoint(Limit(MaxOps))
RevertToCheckpoint == DoRevertToCheckpoint(Limit(MaxOps))
EmptyStackPanic == DoEmptyStackPanic(Limit(MaxOps))
Commit == DoCommit(Limit(MaxOps), KeysWide)
Get == DoGet(Limit(MaxOps), KeysWide, BOOLEAN)
GetMut == DoGetMut(Limit(MaxOps), KeysWide, BOOLEAN)
Remove == DoRemove(Limit(MaxOps), KeysWide)

Next ==
  \/ Checkpoint
  \/ DiscardCheckpoint
  \/ RevertToCheckpoint
  \/ EmptyStackPanic
  \/ Commit
  \/ Get
  \/ GetMut
  \/ Remove

Spec == Init /\ [][Next]_vars

\* ---- SpecCommit: longer runs of mutations and commits, no checkpoint
\* open, on the keys of three kinds, two of them in one sub-cache
KeysCommit ==
  {k \in Key : k[1] = "account" \/ (k[1] \in {"metadata", "action_data"} /\ k[2] = 1)}
InitCommit == InitOn(KeysCommit)
CommitC == DoCommit(Limit(MaxCommitOps), KeysCommit)
GetMutC == DoGetMut(Limit(MaxCommitOps), KeysCommit, {FALSE})
RemoveC == DoRemove(Limit(MaxCommitOps), KeysCommit)
NextCommit ==
  \/ CommitC
  \/ GetMutC
  \/ RemoveC
SpecCommit == InitCommit /\ [][NextCommit]_vars

\* ---- SpecNested: longer runs with nested checkpoints on one key of each
\* of two kinds; a commit may fail at either key
KeysNested == {k \in Key : k[2] = 1 /\ k[1] \in {"account", "shard"}}
InitNested == InitOn(KeysNested)
CheckpointN == DoCheckpoint(Limit(MaxNestedOps))
DiscardCheckpointN == DoDiscardCheckpoint(Limit(MaxNestedOps))
RevertToCheckpointN == DoRevertToCheckpoint(Limit(MaxNestedOps))
CommitN == DoCommit(Limit(MaxNestedOps), KeysNested)
GetN == DoGet(Limit(MaxNestedOps), KeysNested, {FALSE})
GetMutN == DoGetMut(Limit(MaxNestedOps), KeysNested, {FALSE})
RemoveN == DoRemove(Limit(MaxNestedOps), KeysNested)
NextNested ==
  \/ CheckpointN
  \/ DiscardCheckpointN
  \/ RevertToCheckpointN
  \/ CommitN
  \/ GetN
  \/ GetMutN
  \/ RemoveN
SpecNested == InitNested /\ [][NextNested]_vars

\* ---- SpecItems: reads, mutations and cached_<kind>() calls on both
\* addresses of two kinds
KeysItems == {k \in Key : k[1] \in {"account", "shard"}}
InitItems == InitOn(KeysItems)
GetI == DoGet(Limit(MaxItemsOps), KeysItems, {FALSE})
GetMutI == DoGetMut(Limit(MaxItemsOps), KeysItems, {FALSE})
RemoveI == DoRemove(Limit(MaxItemsOps), KeysItems)
CachedI == DoCached(Limit(MaxItemsOps))
NextItems ==
  \/ GetI
  \/ GetMutI
  \/ RemoveI
  \/ CachedI
SpecItems == InitItems /\ [][NextItems]_vars

\* ---- SpecClone: a cache with open checkpoints is cloned, and the clone
\* and the original go separate ways, on one key of each of two kinds
KeysClone == {k \in Key : k[2] = 1 /\ k[1] \in {"account", "shard"}}
InitClone == InitOn(KeysClone)
CheckpointK == DoCheckpoint(Limit(MaxCloneOps))
DiscardCheckpointK == DoDiscardCheckpoint(Limit(MaxCloneOps))
RevertToCheckpointK == DoRevertToCheckpoint(Limit(MaxCloneOps))
CommitK == DoCommit(Limit(MaxCloneOps), {})
GetMutK == DoGetMut(Limit(MaxCloneOps), KeysClone, {FALSE})
RemoveK == DoRemove(Limit(MaxCloneOps), KeysClone)
CloneK == DoClone(Limit(MaxCloneOps))
OtherK == DoOther(Limit(MaxCloneOps), KeysClone)
NextClone ==
  \/ CheckpointK
  \/ DiscardCheckpointK
  \/ RevertToCheckpointK
  \/ CommitK
  \/ GetMutK
  \/ RemoveK
  \/ CloneK
  \/ OtherK
SpecClone == InitClone /\ [][NextClone]_vars

\* ---- SpecSeed: mutations, commits that may fail, and a new cache built
\* from the items of a committed one
InitSeed == InitOn(KeysCommit)
CommitS == DoCommit(Limit(MaxSeedOps), KeysCommit)
GetS == DoGet(Limit(MaxSeedOps), KeysCommit, BOOLEAN)
GetMutS == DoGetMut(Limit(MaxSeedOps), KeysCommit, {FALSE})
RemoveS == DoRemove(Limit(MaxSeedOps), KeysCommit)
CheckpointS == DoCheckpoint(Limit(MaxSeedOps))
NewFromItemsS == DoNewFromItems(Limit(MaxSeedOps))
NextSeed ==
  \/ CommitS
  \/ GetS
  \/ GetMutS
  \/ RemoveS
  \/ CheckpointS
  \/ NewFromItemsS
SpecSeed == InitSeed /\ [][NextSeed]_vars

\* -------------------------------------------------------------- typing
TypeOK ==
  /\ \A k \in Key : trie[k] \in OptValue
  /\ \A k \in Key : Entries(c)[k].item \in OptValue
  /\ \A k \in Key : c[k[1]].persisted[k[2]] \in OptValue
  /\ Len(c2) <= 1
  /\ \A i \in DOMAIN c2, k \in Key : Entries(c2[i])[k].item \in OptValue
  /\ \A m \in miss : m.key \in Key /\ m.depth \in 0..MaxDepth

\* ------------------------------------------------------------ the claims
KindIndex(kind) == CHOOSE i \in DOMAIN Kinds : Kinds[i] = kind
Top(h) == h[Len(h)]
IsTombstone(e) == e.res /\ e.item = None
InSync(tc, kv, k) ==
  /\ Entries(tc)[k].res
  /\ ~Entries(tc)[k].is_dirty
  /\ kv[k] = Entries(tc)[k].item

\* C1: after every TopCache operation the five sub-caches have the same
\* checkpoint-stack depth.
C1_SameDepth ==
  \A k1, k2 \in KindSet : WB_depth(c[k1]) = WB_depth(c[k2])

\* a checkpoint was closed under another one: all five stacks hold one frame
C1_Witness ==
  /\ last.op \in {"discard_checkpoint", "revert_to_checkpoint"}
  /\ \A kind \in KindSet : WB_depth(c[kind]) = 1

\* C2: revert_to_checkpoint() undoes every mutation made since the
\* checkpoint: with no commit since checkpoint(), get(k, store) returns
\* for every address k, mutated or not, what it returned right before
\* checkpoint().
C2_RevertRestoresView ==
  (last.op = "revert_to_checkpoint" /\ ~last.closed.committed)
    => View(c, trie) = last.closed.view

\* a revert of a frame that mutated one address holding a value and left
\* another address holding a value alone
C2_Witness ==
  /\ last.op = "revert_to_checkpoint"
  /\ ~last.closed.committed
  /\ \E k \in last.closed.touched : View(c, trie)[k] # None
  /\ \E k \in Key \ last.closed.touched : View(c, trie)[k] # None

\* C3: nested checkpoints revert one level at a time, last in first out: a
\* revert under an enclosing checkpoint restores what get returned at the
\* inner checkpoint and leaves the enclosing frames as they were, and the
\* revert of the enclosing checkpoint that follows an inner revert restores
\* what get returned at the enclosing checkpoint.
C3_NestedLifo ==
  [][(last'.op = "revert_to_checkpoint" /\ Len(hist) > 0
        /\ ~Top(hist).committed)
       => /\ (Len(hist) > 1 \/ Top(hist).reverted)
               => View(c', trie') = Top(hist).view
          /\ \A kind \in KindSet :
               c'[kind].checkpoints =
                 SubSeq(c[kind].checkpoints, 1, Len(c[kind].checkpoints) - 1)
     ]_vars

\* the second of two reverts: the outer checkpoint, under which a mutated
\* inner checkpoint was reverted, is reverted and a value comes back
C3_Witness ==
  /\ last.op = "revert_to_checkpoint"
  /\ last.closed.reverted
  /\ ~last.closed.committed
  /\ Len(hist) = 0
  /\ \E k \in last.closed.touched : View(c, trie)[k] # None

\* C4: discarding an inner checkpoint keeps the enclosing one revertible.
\* After a discard under an enclosing checkpoint, the new top frame holds a
\* snapshot for every address the discarded frame had mutated, and a later
\* revert of the enclosing checkpoint (no commit since it was taken)
\* restores what get returned before it, also for addresses first
\* mutated in the discarded frame.
C4_DiscardKeepsOuterRevertible ==
  /\ (last.op = "discard_checkpoint" /\ Len(hist) > 0)
       => \A k \in last.closed.touched :
            Top(c[k[1]].checkpoints)[k[2]].rec
  /\ (last.op = "revert_to_checkpoint" /\ last.closed.merged
        /\ ~last.closed.committed)
       => View(c, trie) = last.closed.view

\* the enclosing checkpoint, which had mutated an address itself, is
\* reverted after an inner one was discarded into it; an address first
\* mutated in the inner frame gets its value back
C4_Witness ==
  /\ last.op = "revert_to_checkpoint"
  /\ last.closed.merged
  /\ ~last.closed.committed
  /\ last.closed.touched \ last.closed.inner_only # {}
  /\ \E k \in last.closed.inner_only : View(c, trie)[k] # None

\* C5: a successful commit flushes exactly the dirty set: every entry that
\* was dirty is clean and the trie holds its item (no value for a
\* tombstone); for every other key the trie is as before.
C5_CommitFlushesDirtySet ==
  [][(last'.op = "commit" /\ last'.res.ok)
       => \A k \in Key :
            IF k \in Dirty(c)
            THEN /\ trie'[k] = Entries(c)[k].item
                 /\ Entries(c')[k].res
                 /\ ~Entries(c')[k].is_dirty
            ELSE trie'[k] = trie[k]
     ]_vars

\* a successful commit wrote an item, deleted a tombstone's key and left a
\* third key holding a value alone
C5_Witness ==
  /\ last.op = "commit" /\ last.res.ok
  /\ \E k \in last.dirty : trie[k] # None
  /\ \E k \in last.dirty : IsTombstone(Entries(c)[k])
  /\ \E k \in Key \ last.dirty : trie[k] # None

\* the keys of Dirty(tc) whose trie write comes before that of key bad
WrittenBefore(tc, bad) ==
  {k \in Dirty(tc) :
     \/ KindIndex(k[1]) < KindIndex(bad[1])
     \/ (k[1] = bad[1] /\ k[2] < bad[2])}

\* C6: commit is resumable after a trie failure.  When the trie write for a
\* dirty entry fails, commit returns the error, the entries written before
\* it are clean and in the trie, every other dirty entry (the failing one
\* included) is still dirty with the trie unchanged for its key; and the
\* next commit that meets no failure, whatever get_mut and remove calls and
\* failed commits come in between, leaves the trie equal to the cache for
\* every entry that was dirty before the failed commit.
C6_CommitResumable ==
  [][/\ (last'.op = "commit" /\ last'.key \in Dirty(c))
          => /\ ~last'.res.ok
             /\ \A k \in Dirty(c) :
                  IF k \in WrittenBefore(c, last'.key)
                  THEN InSync(c', trie', k) /\ trie'[k] = Entries(c)[k].item
                  ELSE Entries(c')[k] = Entries(c)[k] /\ trie'[k] = trie[k]
             /\ last'.key \in Dirty(c')
     /\ (last'.op = "commit" /\ last'.res.ok /\ last'.pending # {})
          => \A k \in last'.pending :
               InSync(c', trie', k) /\ Entries(c')[k].item = Entries(c)[k].item
     ]_vars

\* a commit succeeded after a failed one that had written one entry and
\* left another dirty
C6_Witness ==
  /\ last.op = "commit" /\ last.res.ok
  /\ last.pending \ last.dirty # {}
  /\ last.pending \cap last.dirty # {}

\* C7: TopCache::commit commits account, regular_account, metadata, shard,
\* action_data in this order and stops at the first failure: it returns the
\* error, every kind before the failing one is fully written, and for every
\* kind after it no trie write is made and the dirty entries stay dirty.
C7_CommitOrder ==
  [][(last'.op = "commit" /\ last'.key \in Dirty(c))
       => /\ ~last'.res.ok
          /\ \A k \in Key :
               /\ (KindIndex(k[1]) < KindIndex(last'.key[1]) /\ k \in Dirty(c))
                    => InSync(c', trie', k)
               /\ KindIndex(k[1]) > KindIndex(last'.key[1])
                    => /\ trie'[k] = trie[k]
                       /\ Entries(c')[k] = Entries(c)[k]
     ]_vars

\* a commit failed in metadata with a dirty account before it and a dirty
\* action_data entry after it
C7_Witness ==
  /\ last.op = "commit" /\ ~last.res.ok
  /\ last.key[1] = "metadata"
  /\ \E k \in last.dirty : k[1] = "account" /\ ~Entries(c)[k].is_dirty
  /\ \E k \in last.dirty : k[1] = "action_data" /\ Entries(c)[k].is_dirty

\* C8: remove wins over the store and is idempotent: after remove(k), with
\* no get_mut(k) or revert since, however often remove(k) was called, the
\* entry of k is a tombstone and get(k, store) returns None, whatever
\* the store holds for k.
C8_RemoveWins ==
  /\ \A k \in tomb : IsTombstone(Entries(c)[k]) /\ View(c, trie)[k] = None
  /\ (last.op = "get" /\ last.key \in tomb) => last.res = Ok(None)

\* get on a removed key whose store value is there returned None
C8_Witness ==
  /\ last.op = "get"
  /\ last.key \in tomb
  /\ trie[last.key] # None
  /\ last.res = Ok(None)

\* C9 as stated: after revert_to_checkpoint() the dirty flag of every entry
\* mutated since checkpoint() is the flag it had right before checkpoint().
C9_Original ==
  last.op = "revert_to_checkpoint"
    => \A k \in last.closed.touched :
         last.closed.entries[k].res
           => /\ Entries(c)[k].res
              /\ Entries(c)[k].is_dirty = last.closed.entries[k].is_dirty

\* C9 amended: when no commit ran between checkpoint() and
\* revert_to_checkpoint(), the dirty flag of every entry that was resident
\* at checkpoint() and mutated since is the flag it had right before
\* checkpoint().
C9_RevertRestoresDirtyFlag ==
  (last.op = "revert_to_checkpoint" /\ ~last.closed.committed)
    => \A k \in last.closed.touched :
         last.closed.entries[k].res
           => /\ Entries(c)[k].res
              /\ Entries(c)[k].is_dirty = last.closed.entries[k].is_dirty

\* a revert, with no commit since the checkpoint, of a frame that mutated
\* an entry clean at the checkpoint and an entry dirty at the checkpoint
C9_Witness ==
  /\ last.op = "revert_to_checkpoint"
  /\ ~last.closed.committed
  /\ \E k \in last.closed.touched :
       last.closed.entries[k].res /\ ~last.closed.entries[k].is_dirty
  /\ \E k \in last.closed.touched :
       last.closed.entries[k].res /\ last.closed.entries[k].is_dirty

\* C10: get is read-through, cache first.  On a resident address it returns
\* the cached item without a store read and changes nothing; on a
\* non-resident address it reads the store once and, when the read
\* succeeds, keeps the store's value as a clean entry and changes no other
\* entry, no checkpoint frame and not the trie.
C10_GetReadThrough ==
  [][last'.op = "get"
       => LET k == last'.key
          IN  IF Entries(c)[k].res
              THEN /\ last'.res = Ok(Entries(c)[k].item)
                   /\ last'.reads = 0
                   /\ c' = c /\ trie' = trie
              ELSE /\ last'.reads = 1
                   /\ trie' = trie
                   /\ Frames(c') = Frames(c)
                   /\ \A k2 \in Key \ {k} : Entries(c')[k2] = Entries(c)[k2]
                   /\ IF last'.res.ok
                      THEN /\ last'.res = Ok(trie[k])
                           /\ Entries(c')[k] = new_clean(trie[k])
                      ELSE Entries(c')[k] = Entries(c)[k]
     ]_vars

\* get on a resident address returned the cached item, which is not the
\* store's value, without a store read
C10_Witness ==
  /\ last.op = "get"
  /\ last.reads = 0
  /\ last.res.ok
  /\ last.res.val # None
  /\ trie[last.key] # None
  /\ last.res.val # trie[last.key]

\* the resident addresses of a kind
Resident(tc, kind) == {a \in Addr : tc[kind].cache[a].res}
\* out holds every resident address of the kind once, with its current item
ExactlyOnce(out, tc, kind) ==
  /\ Len(out) = Cardinality(Resident(tc, kind))
  /\ \A a \in Resident(tc, kind) :
       \E i \in DOMAIN out : out[i] = <<a, tc[kind].cache[a].item>>
\* the first component that items() gave to the triple of address a
RankOf(items, a) == (CHOOSE t \in items : t[2] = a)[1]

\* C11 as stated: cached_<kind>() returns every resident address of the
\* sub-cache exactly once with its current item, in ascending order of
\* address.
C11_Original ==
  last.op = "cached"
    => LET out == last.res.val
       IN  /\ ExactlyOnce(out, c, last.key[1])
           /\ \A i, j \in DOMAIN out : i < j => out[i][1] < out[j][1]

\* C11 amended: cached_<kind>() returns every resident address of the
\* sub-cache exactly once with its current item, in ascending order of the
\* first component of the triples of items(), which is not the address;
\* addresses whose first components are equal come in either order.
C11_CachedSortedByFirst ==
  last.op = "cached"
    => LET out == last.res.val
       IN  /\ ExactlyOnce(out, c, last.key[1])
           /\ \A i, j \in DOMAIN out :
                i < j => RankOf(last.items, out[i][1])
                           <= RankOf(last.items, out[j][1])

\* a cached_<kind>() call on a sub-cache with two resident addresses, one of
\* them a tombstone, returned in descending order of address
C11_Witness ==
  /\ last.op = "cached"
  /\ Len(last.res.val) = 2
  /\ last.res.val[1][1] > last.res.val[2][1]
  /\ \E i \in DOMAIN last.res.val : last.res.val[i][2] = None
  /\ \E i \in DOMAIN last.res.val : last.res.val[i][2] # None

\* C12: a clone is independent of its original.  Right after clone() the
\* clone has the entries, dirty flags and checkpoint frames of the
\* original; from then on an operation on the original leaves the clone as
\* it is and an operation on the clone leaves the original as it is; and
\* a revert_to_checkpoint on the clone (no commit since the checkpoint)
\* restores what get returned when the checkpoint was taken, also for a
\* checkpoint taken in the original before the clone was made.
C12_CloneIndependent ==
  [][/\ last'.op = "clone"
          => /\ Entries(c') = Entries(c)
             /\ Frames(c') = Frames(c)
             /\ c2' = <<c>>
     /\ last'.op = "other" => c' = c
     /\ (c2 # << >> /\ last'.op # "other") => c2' = c2
     /\ (c2 # << >> /\ last'.op = "revert_to_checkpoint"
           /\ ~Top(hist).committed)
          => View(c', trie') = Top(hist).view
    ]_vars

\* the clone reverted a checkpoint taken before the clone was made: the
\* value of a mutated entry came back in the clone, while the original keeps
\* the mutated entry and its frame
C12_Witness ==
  /\ c2 # << >>
  /\ last.op = "revert_to_checkpoint"
  /\ last.closed.cloned
  /\ ~last.closed.committed
  /\ \E k \in last.closed.touched :
       /\ View(c, trie)[k] # None
       /\ View(c2[1], trie)[k] # View(c, trie)[k]
       /\ Entries(c2[1])[k].is_dirty
       /\ WB_depth(c2[1][k[1]]) = Len(hist) + 1

\* C13: round trip through items().  A cache constructed from the (address,
\* value) pairs of the items of a committed cache has every seeded entry
\* clean and no checkpoint open; get for every seeded address returns the
\* value the committed cache held, also on a store whose reads fail (no
\* read is made); and a commit right after construction succeeds whichever
\* trie write would fail and leaves the trie as it is (no write is made).
C13_RoundTrip ==
  [][(last'.op = "new")
       => /\ \A k \in Seeded(c) :
               /\ Entries(c')[k] = new_clean(Entries(c)[k].item)
               /\ \A err \in BOOLEAN :
                    LET g == get(k[1], c', k[2], Db(trie', err))
                    IN  /\ g.res = Ok(Entries(c)[k].item)
                        /\ g.reads = 0
                        /\ g.tc = c'
          /\ \A kind \in KindSet : WB_depth(c'[kind]) = 0
          /\ \A bad \in Key \cup {NoKey} :
               LET r == commit(c', trie', bad)
               IN  r.ok /\ r.kv = trie' /\ r.tc = c'
     ]_vars

\* a cache was built from the items of a committed cache that held two
\* values, one of them not the default; the trie holds both
C13_Witness ==
  /\ last.op = "new" /\ ops > 0
  /\ Cardinality(last.items) = 2
  /\ \E k \in last.items : Entries(c)[k].item = Some(1)
  /\ \A k \in last.items : InSync(c, trie, k)

\* every resident entry that is not dirty holds what the trie holds
CleanReconciled(tc, kv) ==
  \A k \in Key :
    (Entries(tc)[k].res /\ ~Entries(tc)[k].is_dirty)
      => Entries(tc)[k].item = kv[k]

\* C14: clean means reconciled with the trie.  In every reachable state, a
\* commit under an open checkpoint followed by revert_to_checkpoint
\* included, every resident entry that is not dirty holds exactly the value
\* the trie holds for its key, and a successful commit leaves the trie equal
\* to the cache on all resident addresses.
C14_CleanIsReconciled ==
  /\ CleanReconciled(c, trie)
  /\ (last.op = "commit" /\ last.res.ok)
       => \A k \in Key : Entries(c)[k].res => InSync(c, trie, k)

\* a revert of a checkpoint under which a commit was made gave a mutated
\* entry its value of before the checkpoint back, which is not the value
\* the commit wrote to the trie: the entry is dirty
C14_Witness ==
  /\ last.op = "revert_to_checkpoint"
  /\ last.closed.committed
  /\ \E k \in last.closed.touched :
       /\ Entries(c)[k].res
       /\ Entries(c)[k].is_dirty
       /\ Entries(c)[k].item # None
       /\ trie[k] # None
       /\ Entries(c)[k].item # trie[k]
       /\ last.closed.entries[k].res
       /\ ~last.closed.entries[k].is_dirty

\* the frames of frames fs below index n are the same in gs
SameBelow(fs, gs, n) == \A i \in 1..(n - 1) : gs[i] = fs[i]
\* every snapshot recorded in frame f is in frame g, unaltered
KeepsRecorded(f, g) == \A a \in Addr : f[a].rec => g[a] = f[a]

\* C15: checkpoint snapshots are write-once per frame.  A get_mut or remove
\* that succeeds under an open checkpoint leaves a snapshot for its address
\* in the top frame: the entry as it was before the call when the frame had
\* none (for a get_mut on a miss, the entry as loaded), the snapshot already
\* there otherwise.  No get, get_mut, remove, commit or checkpoint removes
\* or alters a recorded snapshot or records one for another address; a
\* discard or revert pops the top frame and alters no snapshot recorded in
\* the frames below.
C15_SnapshotWriteOnce ==
  [][\A kind \in KindSet :
       LET fs == c[kind].checkpoints
           gs == c'[kind].checkpoints
           n == Len(fs)
       IN  /\ last'.op \in {"get", "get_mut", "remove", "commit", "cached"}
                => /\ Len(gs) = n
                   /\ SameBelow(fs, gs, n)
                   /\ n > 0 =>
                        /\ KeepsRecorded(fs[n], gs[n])
                        /\ \A a \in Addr :
                             (~fs[n][a].rec /\ gs[n][a].rec)
                               => /\ last'.op \in {"get_mut", "remove"}
                                  /\ last'.key = <<kind, a>>
                                  /\ gs[n][a].e =
                                       IF c[kind].cache[a].res
                                          \/ last'.op = "remove"
                                       THEN c[kind].cache[a]
                                       ELSE new_clean(trie[<<kind, a>>])
                        /\ (last'.op \in {"get_mut", "remove"}
                              /\ last'.res.ok /\ last'.key[1] = kind)
                             => gs[n][last'.key[2]].rec
           /\ last'.op = "checkpoint"
                => Len(gs) = n + 1 /\ SameBelow(fs, gs, n + 1)
           /\ last'.op \in {"discard_checkpoint", "revert_to_checkpoint"}
                => /\ Len(gs) = n - 1
                   /\ SameBelow(fs, gs, n - 1)
                   /\ n > 1 => KeepsRecorded(fs[n - 1], gs[n - 1])
     ]_vars

\* a second mutation of an address under the same checkpoint: the entry is
\* not what the checkpoint found, and the top frame still holds what the
\* checkpoint found, a value
C15_Witness ==
  /\ last.op \in {"get_mut", "remove"}
  /\ last.again
  /\ LET k == last.key
         snap == Top(c[k[1]].checkpoints)[k[2]]
     IN  /\ snap.rec
         /\ snap.e = Top(hist).entries[k]
         /\ snap.e.item # None
         /\ Entries(c)[k].item # snap.e.item

\* C16: remove on an address that is not resident still produces a trie
\* deletion.  For a key removed while it was not resident, with no get_mut
\* on it and no revert since, a successful commit leaves the trie with no
\* value for the key and the entry a clean tombstone; and when the remove
\* was made under an open checkpoint, the revert of that checkpoint makes
\* get(k, store) return what the trie holds for the key.
C16_RemoveOnMissDeletes ==
  [][/\ (last'.op = "commit" /\ last'.res.ok)
          => \A m \in miss :
               m.key \in tomb
                 => /\ trie'[m.key] = None
                    /\ Entries(c')[m.key] = new_clean(None)
     /\ (last'.op = "revert_to_checkpoint")
          => \A k \in MissKeys(Len(hist)) :
               get(k[1], c', k[2], Db(trie', FALSE)).res = Ok(trie'[k])
    ]_vars

\* a successful commit took out of the trie the value of a key that
\* was removed while it was not resident
C16_Witness ==
  /\ last.op = "commit" /\ last.res.ok
  /\ \E m \in miss :
       /\ m.stored
       /\ m.key \in tomb \cap last.dirty
       /\ trie[m.key] = None

\* C17 as stated: no operation makes a resident address non-resident.
C17_Original ==
  [][\A k \in Key : Entries(c)[k].res => Entries(c')[k].res]_vars

\* C17 amended: the resident addresses shrink only in revert_to_checkpoint,
\* and only by the addresses that were not resident when remove was called
\* on them under the reverted checkpoint (an inner checkpoint discarded into
\* it included); an address seeded at construction or loaded from the trie
\* stays resident, and get, get_mut, remove, checkpoint, discard_checkpoint,
\* commit and cached_<kind>() take no address away.
C17_EvictionOnlyOfRemovedOnMiss ==
  [][\A k \in Key :
       (Entries(c)[k].res /\ ~Entries(c')[k].res)
         => /\ last'.op = "revert_to_checkpoint"
            /\ Len(hist) > 0
            /\ k \in MissKeys(Len(hist))
    ]_vars

\* a revert took away the entry that a remove on a non-resident address had
\* made under the checkpoint, and kept the entry of an address loaded under
\* the same checkpoint
C17_Witness ==
  /\ last.op = "revert_to_checkpoint"
  /\ \E k \in last.closed.touched :
       ~last.closed.entries[k].res /\ ~Entries(c)[k].res
  /\ \E k \in Key : ~last.closed.entries[k].res /\ Entries(c)[k].res

\* C18: discard_checkpoint accepts the frame's mutations: it pops exactly
\* one frame from each of the five sub-caches, leaves the frames below
\* the new top frame and every entry (item and dirty flag) as they are,
\* and get returns for every address what it returned before the discard.
C18_DiscardKeepsEntries ==
  [][last'.op = "discard_checkpoint"
       => /\ \A kind \in KindSet :
               LET fs == c[kind].checkpoints
                   gs == c'[kind].checkpoints
               IN  /\ Len(fs) > 0
                   /\ Len(gs) = Len(fs) - 1
                   /\ SameBelow(fs, gs, Len(gs))
          /\ Entries(c') = Entries(c)
          /\ trie' = trie
          /\ View(c', trie') = View(c, trie)
    ]_vars

\* an inner checkpoint was discarded under which an address was mutated:
\* the entry is dirty and is not what the checkpoint had found, and the
\* enclosing checkpoint is still open
C18_Witness ==
  /\ last.op = "discard_checkpoint"
  /\ Len(hist) > 0
  /\ \E k \in last.closed.touched :
       /\ Entries(c)[k].is_dirty
       /\ Entries(c)[k].item # last.closed.entries[k].item
       /\ View(c, trie)[k] # last.closed.view[k]

\* C20: commit changes only dirty flags and the trie.  Whether it succeeds
\* or fails, the item of every resident entry, the set of resident
\* addresses and the checkpoint frames of the five sub-caches are what they
\* were, a dirty flag is only ever cleared, and get returns for every
\* address what it returned before the commit.
C20_CommitFrame ==
  [][last'.op = "commit"
       => /\ \A k \in Key :
               /\ Entries(c')[k].res = Entries(c)[k].res
               /\ Entries(c')[k].item = Entries(c)[k].item
               /\ Entries(c')[k].is_dirty => Entries(c)[k].is_dirty
          /\ Frames(c') = Frames(c)
          /\ View(c', trie') = View(c, trie)
    ]_vars

\* a commit failed under an open checkpoint that holds a snapshot; an entry
\* is still dirty
C20_Witness ==
  /\ last.op = "commit" /\ ~last.res.ok
  /\ Len(hist) > 0
  /\ \E k \in Top(hist).touched :
       /\ Top(c[k[1]].checkpoints)[k[2]].rec
       /\ Entries(c)[k].is_dirty

====
